---- MODULE Spec2Model ----
(***************************************************************************)
(* Model of cortex/permission_manager.py: PermissionManager over a small   *)
(* directory tree.  diagnose() is the os.walk loop, one step per directory *)
(* listing and one step per os.stat; fix_permissions() runs diagnose, then *)
(* decides and (at most once) calls subprocess.run; check_compose_config() *)
(* tests for the file, reads it and prints.  A behaviour is one call on a   *)
(* manager constructed over some tree: the manager keeps nothing between   *)
(* calls but its ids, so a later call is a first call on the tree as it    *)
(* then is.  Other processes may re-own, delete or create files while the  *)
(* scan runs (specification Spec); SpecQuiet is the same program on a tree *)
(* nobody else touches.                                                    *)
(*                                                                         *)
(* Strings whose content matters are sequences of pieces, so that Python's *)
(* substring test `a in b` is a real search for a contiguous run.          *)
(***************************************************************************)
EXTENDS Integers, Sequences, FiniteSets, TLC

VARIABLES
    platform,          \* platform.system()
    host_uid,          \* self.host_uid
    host_gid,          \* self.host_gid
    dirName,           \* directory -> its name (last path segment); 0 is base_path
    parent,            \* directory -> the directory holding it (0 for the root)
    meta,              \* file -> what os.stat would give now
    compose,           \* docker-compose.yml under base_path
    pc,                \* position of the running call
    op,                \* the method the caller invoked
    execute,           \* argument of fix_permissions
    stack,             \* os.walk: directories still to list (top is the last)
    curRoot,           \* os.walk: `root` of the triple being processed
    curFiles,          \* `files` of the triple, not yet stat'ed
    mismatched_files,  \* the list diagnose() builds
    statted,           \* the os.stat calls of this call: path and outcome
    runCalls,          \* subprocess.run calls issued during this call
    console,           \* console.print calls issued during this call
    runOutcome,        \* how the subprocess.run call ended
    ret                \* outcome of the call

vars == <<platform, host_uid, host_gid, dirName, parent, meta, compose, pc, op,
          execute, stack, curRoot, curFiles, mismatched_files, statted,
          runCalls, console,
                   runOutcome, ret>>

fsVars == <<dirName, parent, meta, compose>>
idVars == <<platform, host_uid, host_gid>>

----------------------------------------------------------------------------
(* Bounds of the model *)

\* user and group ids run over 0..MaxId
MaxId == 1

Uids == 0..MaxId
Gids == 0..MaxId

\* directories: 0 is the scan root, 1 and 2 lie below it
Dirs == {0, 1, 2}

\* a directory name as the pieces it is made of
Pieces(name) ==
    CASE name = "venv"            -> <<"venv">>
      [] name = ".venv"           -> <<".", "venv">>
      [] name = ".git"            -> <<".git">>
      [] name = "__pycache__"     -> <<"__pycache__">>
      [] name = "node_modules"    -> <<"node_modules">>
      [] name = ".pytest_cache"   -> <<".pytest_cache">>
      [] name = "my-venv-configs" -> <<"my-", "venv", "-configs">>
      [] name = "advenvironment"  -> <<"ad", "venv", "ironment">>
      [] OTHER                    -> <<name>>

\* names a directory of the scanned tree can have: an exclusion entry, and a
\* name that is none but contains one
DirNames == {"venv", "my-venv-configs"}

\* files: two directly under the root, one in the last directory.  The text
\* of docker-compose.yml is kept apart, in `compose`: the scan never reads it.
Files == {<<0, "locked.txt">>, <<0, "normal.txt">>, <<2, "ghost.txt">>}

----------------------------------------------------------------------------
(* Sequences and strings *)

Range(s) == {s[i] : i \in 1..Len(s)}

Reverse(s) == [i \in 1..Len(s) |-> s[Len(s) + 1 - i]]

\* every ordering of a finite set
Perms(S) == {s \in [1..Cardinality(S) -> S] : Range(s) = S}

\* Python's `needle in hay` on strings
IsSubstring(needle, hay) ==
    \E i \in 0..(Len(hay) - Len(needle)) :
        \A j \in 1..Len(needle) : hay[i + j] = needle[j]

Digits == <<"0", "1", "2", "3", "4", "5", "6", "7", "8", "9">>

\* str(n) for a non-negative integer, one piece per digit
RECURSIVE Decimal(_)
Decimal(n) ==
    IF n < 10 THEN <<Digits[n + 1]>>
    ELSE Decimal(n \div 10) \o <<Digits[(n % 10) + 1]>>

----------------------------------------------------------------------------
(* The module's constants and the manager's pure helpers *)

EXCLUDED_DIRS == {"venv", ".venv", ".git", "__pycache__", "node_modules", ".pytest_cache"}

\* the fallback id PermissionManager uses on Windows
WindowsId == 1000

\* timeout= of the chown call
ChownTimeout == 60

\* faulty variant: substring matching instead of membership
KeepDirBySubstring(d) ==
    \A e \in EXCLUDED_DIRS : ~IsSubstring(Pieces(e), Pieces(d))

\* faulty variant: nothing is pruned
KeepDirAlways(d) == TRUE

\* `d not in EXCLUDED_DIRS`
KeepDir(d) == d \notin EXCLUDED_DIRS

\* `dirs[:] = [d for d in dirs if d not in EXCLUDED_DIRS]`
Prune(dirs) == SelectSeq(dirs, KeepDir)

\* faulty variant: the root-only rule (st_uid == 0)
IsMismatchRootOnly(uid) == uid = 0

\* `os.stat(full_path).st_uid != self.host_uid`
IsMismatch(uid) == uid # host_uid

\* os.path.join(root, name); a path is its sequence of segments
Join(root, name) == Append(root, name)

\* path of a directory, from base_path down
RECURSIVE DirPath(_)
DirPath(d) ==
    IF d = 0 THEN <<dirName[0]>> ELSE Join(DirPath(parent[d]), dirName[d])

FilePath(f) == Join(DirPath(f[1]), f[2])

\* the directory / file a path names
DirAt(p) == CHOOSE d \in Dirs : DirPath(d) = p
FileAt(p) == CHOOSE f \in Files : FilePath(f) = p
IsTreeFile(p) == \E f \in Files : FilePath(f) = p

\* what os.stat gives for a file
FileStates ==
    {[kind |-> "file", uid |-> u] : u \in Uids}
        \cup {[kind |-> k, uid |-> 0] : k \in {"absent", "EACCES", "ELOOP"}}

Owned(u) == [kind |-> "file", uid |-> u]

\* a directory listing shows every entry that exists, whatever os.stat says
Listed(f) == meta[f].kind # "absent"

\* f"{self.host_uid}:{self.host_gid}"
OwnerSpec == Decimal(host_uid) \o <<":">> \o Decimal(host_gid)

----------------------------------------------------------------------------
(* Call inputs, console texts *)

\* the path list test_fix_permissions_executes_chown passes
TestFile == <<"path", "to", "file1.txt">>

\* a Python value given as `execute`: a bool, or a list of paths
BoolArg(b) == [isList |-> FALSE, flag |-> b, paths |-> <<>>]
ListArg(l) == [isList |-> TRUE, flag |-> FALSE, paths |-> l]

ExecuteInputs == {BoolArg(b) : b \in BOOLEAN} \cup {ListArg(<<TestFile>>)}

\* truth value of `execute` in `if not execute`
Truthy(e) == IF e.isList THEN Len(e.paths) > 0 ELSE e.flag

\* docker-compose.yml: missing, unreadable (open or read raises), or its text
ComposeTexts ==
    { <<"version", ":", " '3'">>,                         \* the test's content
      <<"services", ":", "user", ":", " \"1000:1000\"">>, \* has the directive
      <<"super", "user", ":", " root">>,                  \* has it inside a longer key
      <<"user", "name", ":", " me">> }                    \* "user" and ":" apart

ComposeStates ==
    {[kind |-> "missing", text |-> <<>>], [kind |-> "unreadable", text |-> <<>>]}
        \cup {[kind |-> "text", text |-> t] : t \in ComposeTexts}

UserToken == <<"user", ":">>
ComposeFileName == <<"docker-compose", ".yml">>

\* the first console.print of check_compose_config
AdvisoryHeader == <<"Recommended ", "Docker-Compose", " settings", ":">>

\* generate_compose_settings()
generate_compose_settings ==
    <<"    ", "user", ":", " \"">> \o OwnerSpec \o <<"\"\n">>
        \o <<"    # Or for better portability across different machines", ":", "\n">>
        \o <<"    # ", "user", ":", " \"${UID}:${GID}\"">>

\* `"user:" not in content`
NeedsAdvisory(content) == ~IsSubstring(UserToken, content)

----------------------------------------------------------------------------
(* Construction *)

TreeOK(n, p) ==
    /\ p[0] = 0 /\ p[1] = 0 /\ p[2] \in {0, 1}
    /\ \A d, e \in Dirs \ {0} : (d # e /\ p[d] = p[e]) => n[d] # n[e]

Quiescent ==
    /\ pc = "idle" /\ op = "none" /\ execute = BoolArg(FALSE)
    /\ stack = <<>> /\ curRoot = <<>> /\ curFiles = <<>>
    /\ mismatched_files = <<>> /\ statted = {}
    /\ runCalls = <<>> /\ console = <<>> /\ runOutcome = "none" /\ ret = "none"

\* PermissionManager.__init__ on some host: os.getuid(), os.getgid(), or 1000
InitIdentity ==
    /\ platform \in {"Linux", "Windows"}
    /\ host_uid \in (IF platform # "Windows" THEN Uids ELSE {WindowsId})
    /\ host_gid \in (IF platform # "Windows" THEN Gids ELSE {WindowsId})

\* some tree of directories and files, without a docker-compose.yml
InitTree ==
    /\ dirName \in [Dirs -> DirNames]
    /\ parent \in [Dirs -> Dirs]
    /\ TreeOK(dirName, parent)
    /\ meta \in [Files -> FileStates]
    /\ compose = [kind |-> "missing", text |-> <<>>]

\* a project directory with empty sub-directories and some docker-compose.yml;
\* check_compose_config reads nothing else, diagnose never reads that file's text
InitCompose ==
    /\ dirName = [d \in Dirs |-> IF d = 1 THEN "venv" ELSE "proj"]
    /\ parent = [d \in Dirs |-> IF d = 2 THEN 1 ELSE 0]
    /\ meta = [f \in Files |-> [kind |-> "absent", uid |-> 0]]
    /\ compose \in ComposeStates

Init ==
    /\ InitIdentity
    /\ InitTree \/ InitCompose
    /\ Quiescent

----------------------------------------------------------------------------
(* diagnose() *)

StartWalk ==
    /\ stack' = <<<<dirName[0]>>>>
    /\ curRoot' = <<>> /\ curFiles' = <<>>
    /\ mismatched_files' = <<>> /\ statted' = {}
    /\ runCalls' = <<>> /\ console' = <<>> /\ runOutcome' = "none" /\ ret' = "none"
    /\ pc' = "walk"

CallDiagnose ==
    /\ pc = "idle"
    /\ op' = "diagnose" /\ execute' = BoolArg(FALSE)
    /\ StartWalk
    /\ UNCHANGED <<fsVars, idVars>>

\* os.walk lists the directory on top of its stack and yields (root, dirs,
\* files), in whatever order the directory gives its entries; the loop body
\* prunes dirs in place, and os.walk later descends into what is left
WalkList ==
    /\ pc = "walk" /\ stack # <<>>
    /\ LET top  == stack[Len(stack)]
           d    == DirAt(top)
           subs == {dirName[c] : c \in {c \in Dirs \ {0} : parent[c] = d}}
           here == {f \in Files : f[1] = d /\ Listed(f)}
       IN \E dirs \in Perms(subs), files \in Perms({f[2] : f \in here}) :
            /\ stack' = SubSeq(stack, 1, Len(stack) - 1)
                          \o Reverse([i \in 1..Len(Prune(dirs)) |->
                                        Join(top, Prune(dirs)[i])])
            /\ curRoot' = top
            /\ curFiles' = files
            /\ pc' = IF files = <<>> THEN "walk" ELSE "files"
    /\ UNCHANGED <<fsVars, idVars, op, execute, mismatched_files, statted,
                   runCalls, console,
                   runOutcome, ret>>

\* os.walk cannot list the directory (gone, unreadable): with onerror=None it
\* is skipped without a word
WalkListFail ==
    /\ pc = "walk" /\ stack # <<>>
    /\ stack' = SubSeq(stack, 1, Len(stack) - 1)
    /\ UNCHANGED <<fsVars, idVars, pc, op, execute, curRoot, curFiles,
                   mismatched_files, statted, runCalls, console,
                   runOutcome, ret>>

\* one turn of `for name in files`
StatFile ==
    /\ pc = "files" /\ curFiles # <<>>
    /\ LET full_path == Join(curRoot, Head(curFiles))
           st        == meta[FileAt(full_path)]
           rest      == Tail(curFiles)
       IN /\ statted' = statted \cup {[path |-> full_path, st |-> st]}
          /\ CASE st.kind = "file" ->
                    /\ mismatched_files' =
                         IF IsMismatch(st.uid) THEN Append(mismatched_files, full_path)
                         ELSE mismatched_files
                    /\ curFiles' = rest
                    /\ pc' = IF rest = <<>> THEN "walk" ELSE "files"
                    /\ ret' = ret
               [] st.kind \in {"absent", "EACCES"} ->
                    \* FileNotFoundError, PermissionError: continue
                    /\ curFiles' = rest
                    /\ pc' = IF rest = <<>> THEN "walk" ELSE "files"
                    /\ UNCHANGED <<mismatched_files, ret>>
               [] OTHER ->
                    \* any other OSError leaves diagnose(), and fix_permissions() with it
                    /\ pc' = "done" /\ ret' = "raised"
                    /\ UNCHANGED <<mismatched_files, curFiles>>
    /\ UNCHANGED <<fsVars, idVars, op, execute, stack, curRoot, runCalls, console,
                   runOutcome>>

\* os.walk is exhausted: `return mismatched_files`
DiagnoseReturn ==
    /\ pc = "walk" /\ stack = <<>>
    /\ IF op = "diagnose" THEN pc' = "done" /\ ret' = "list"
       ELSE pc' = "fix" /\ ret' = ret
    /\ UNCHANGED <<fsVars, idVars, op, execute, stack, curRoot, curFiles,
                   mismatched_files, statted, runCalls, console,
                   runOutcome>>

----------------------------------------------------------------------------
(* fix_permissions(execute) *)

\* `mismatches[:5]` shows at most this many paths
PreviewLen == 5

Min(a, b) == IF a < b THEN a ELSE b

\* what the dry run prints
DryRunReport(mismatches) ==
    <<<<"[Dry-run] Found ">> \o Decimal(Len(mismatches))
          \o <<" files owned by root/other UIDs.">>>>
      \o [i \in 1..Min(Len(mismatches), PreviewLen) |-> <<"  * ">> \o mismatches[i]]
      \o (IF Len(mismatches) > PreviewLen
          THEN <<<<"  ... and ">> \o Decimal(Len(mismatches) - PreviewLen) \o <<" more.">>>>
          ELSE <<>>)
      \o <<<<"Run with --execute to apply repairs.">>>>

\* faulty variant: the path list the caller passed, not the diagnosis
ChownArgsFromInput(mismatches) ==
    <<<<"sudo">>, <<"chown">>, OwnerSpec>> \o execute.paths

\* `["sudo", "chown", f"{self.host_uid}:{self.host_gid}"] + mismatches`
ChownArgs(mismatches) ==
    <<<<"sudo">>, <<"chown">>, OwnerSpec>> \o mismatches

\* the subprocess.run call
RunCall(mismatches) ==
    [args |-> ChownArgs(mismatches), check |-> TRUE, capture_output |-> TRUE,
     timeout |-> ChownTimeout]

CallFix(e) ==
    /\ pc = "idle"
    /\ op' = "fix" /\ execute' = e
    /\ StartWalk
    /\ UNCHANGED <<fsVars, idVars>>

\* faulty variant: the dry-run test is missing
FixBranchNoDryRun(mismatches) ==
    IF mismatches = <<>> THEN "nothing"
    ELSE IF platform = "Windows" THEN "unsupported"
    ELSE "run"

\* faulty variant: the platform test is missing
FixBranchNoPlatform(mismatches) ==
    IF mismatches = <<>> THEN "nothing"
    ELSE IF ~Truthy(execute) THEN "dryrun"
    ELSE "run"

\* the order of the tests after `mismatches = self.diagnose()`
FixBranch(mismatches) ==
    IF mismatches = <<>> THEN "nothing"
    ELSE IF ~Truthy(execute) THEN "dryrun"
    ELSE IF platform = "Windows" THEN "unsupported"
    ELSE "run"

\* from the end of the internal diagnose() to a return or to subprocess.run
FixDecide ==
    /\ pc = "fix"
    /\ LET mismatches == mismatched_files
           branch == FixBranch(mismatches)
       IN CASE branch = "nothing" ->
                 /\ console' = Append(console, <<"No permission mismatches detected.">>)
                 /\ ret' = "True" /\ pc' = "done"
                 /\ runCalls' = runCalls
            [] branch = "dryrun" ->
                 /\ console' = console \o DryRunReport(mismatches)
                 /\ ret' = "True" /\ pc' = "done"
                 /\ runCalls' = runCalls
            [] branch = "unsupported" ->
                 /\ console' = Append(console,
                        <<"Error: Permission repairs are only supported on Linux/WSL.">>)
                 /\ ret' = "False" /\ pc' = "done"
                 /\ runCalls' = runCalls
            [] OTHER ->
                 /\ console' = Append(console,
                        <<"Applying repairs to ">> \o Decimal(Len(mismatches))
                            \o <<" paths...">>)
                 /\ runCalls' = Append(runCalls, RunCall(mismatches))
                 /\ ret' = ret /\ pc' = "run"
    /\ UNCHANGED <<fsVars, idVars, op, execute, stack, curRoot, curFiles,
                   mismatched_files, statted, runOutcome>>

\* how subprocess.run can end: the command succeeded, exited non-zero
\* (check=True), ran past the timeout, could not be started for lack of
\* permission, or could not be started for another reason (no sudo)
RunOutcomes ==
    {"ok", "CalledProcessError", "TimeoutExpired", "PermissionError", "FileNotFoundError"}

\* chown applied to the first k paths of the command line
Chowned(paths, k) ==
    [f \in Files |->
        IF meta[f].kind = "file" /\ \E i \in 1..k : paths[i] = FilePath(f)
        THEN Owned(host_uid) ELSE meta[f]]

\* faulty variant: a timeout is not caught
RunResultTimeoutEscapes(outcome) ==
    CASE outcome = "ok" -> "True"
      [] outcome \in {"CalledProcessError", "PermissionError"} -> "False"
      [] OTHER -> "raised"

\* the try/except around subprocess.run
RunResult(outcome) ==
    CASE outcome = "ok" -> "True"
      [] outcome \in {"CalledProcessError", "TimeoutExpired", "PermissionError"} -> "False"
      [] OTHER -> "raised"

RunFinish(outcome) ==
    /\ pc = "run"
    /\ LET paths == mismatched_files
       IN \E k \in 0..Len(paths) :
            /\ outcome = "ok" => k = Len(paths)
            /\ outcome \in {"PermissionError", "FileNotFoundError"} => k = 0
            /\ meta' = Chowned(paths, k)
    /\ runOutcome' = outcome
    /\ ret' = RunResult(outcome)
    /\ console' =
         CASE ret' = "True" -> Append(console, <<"Ownership reclaimed successfully!">>)
           [] ret' = "False" -> Append(console, <<"Failed to fix permissions: ", outcome>>)
           [] OTHER -> console
    /\ pc' = "done"
    /\ UNCHANGED <<dirName, parent, compose, idVars, op, execute, stack, curRoot,
                   curFiles, mismatched_files, statted, runCalls>>

----------------------------------------------------------------------------
(* check_compose_config() *)

CallCheck ==
    /\ pc = "idle"
    /\ op' = "check" /\ pc' = "exists"
    /\ UNCHANGED <<fsVars, idVars, execute, stack, curRoot, curFiles,
                   mismatched_files, statted, runCalls, console,
                   runOutcome, ret>>

\* `if os.path.exists(compose_path)`
CheckExists ==
    /\ pc = "exists"
    /\ IF compose.kind = "missing" THEN pc' = "done" /\ ret' = "None"
       ELSE pc' = "read" /\ ret' = ret
    /\ UNCHANGED <<fsVars, idVars, op, execute, stack, curRoot, curFiles,
                   mismatched_files, statted, runCalls, console,
                   runOutcome>>

\* what check_compose_config prints for a text it could read
Advisory(content) ==
    IF NeedsAdvisory(content) THEN <<AdvisoryHeader, generate_compose_settings>>
    ELSE <<>>

\* the try block: open, read, test, print; `except Exception: pass`
CheckRead ==
    /\ pc = "read"
    /\ console' = IF compose.kind = "text" THEN console \o Advisory(compose.text)
                  ELSE console
    /\ pc' = "done" /\ ret' = "None"
    /\ UNCHANGED <<fsVars, idVars, op, execute, stack, curRoot, curFiles,
                   mismatched_files, statted, runCalls, runOutcome>>

----------------------------------------------------------------------------
(* Other processes, and the whole machine *)

\* p is q or lies under q
IsPrefix(q, p) == Len(q) <= Len(p) /\ SubSeq(p, 1, Len(q)) = q

\* the scan has still to look at the file: it is listed and waits for its
\* os.stat, or os.walk has still to list a directory above it
StillAhead(f) ==
    \/ pc = "files" /\ DirPath(f[1]) = curRoot /\ f[2] \in Range(curFiles)
    \/ \E i \in 1..Len(stack) : IsPrefix(stack[i], DirPath(f[1]))

\* another process re-owns, deletes or creates a file during the scan.  What
\* happened before the call is in Init.  The scan lists a directory once and
\* stats a path once, and how the chown command ends is drawn freely, so a
\* change to a file the scan has left behind cannot reach the program: only
\* files still ahead of the scan are touched.
EnvTouchFile ==
    /\ pc \in {"walk", "files"}
    /\ \E f \in Files, s \in {[kind |-> "absent", uid |-> 0]} \cup {Owned(u) : u \in Uids} :
          /\ StillAhead(f)
          /\ s # meta[f]
          /\ meta' = [meta EXCEPT ![f] = s]
    /\ UNCHANGED <<dirName, parent, compose, idVars, pc, op, execute, stack, curRoot,
                   curFiles, mismatched_files, statted, runCalls, console,
                   runOutcome, ret>>

\* another process writes, removes or locks away docker-compose.yml
EnvTouchCompose ==
    /\ op = "check" /\ pc # "done"
    /\ \E c \in ComposeStates :
          /\ c # compose
          /\ compose' = c
    /\ UNCHANGED <<dirName, parent, meta, idVars, pc, op, execute, stack, curRoot,
                   curFiles, mismatched_files, statted, runCalls, console,
                   runOutcome, ret>>

Program ==
    \/ CallDiagnose
    \/ \E e \in ExecuteInputs : CallFix(e)
    \/ CallCheck
    \/ WalkList
    \/ StatFile
    \/ DiagnoseReturn
    \/ FixDecide
    \/ \E o \in RunOutcomes : RunFinish(o)
    \/ CheckExists
    \/ CheckRead

NextQuiet == Program

Next ==
    \/ Program
    \/ WalkListFail
    \/ EnvTouchFile
    \/ EnvTouchCompose

SpecQuiet == Init /\ [][NextQuiet]_vars

Spec == Init /\ [][Next]_vars

----------------------------------------------------------------------------
(* What the claims speak of *)

\* a directory and every directory above it, the scan root included
RECURSIVE DirChain(_)
DirChain(d) == IF d = 0 THEN {0} ELSE {d} \cup DirChain(parent[d])

\* the file lies in or under a directory, below the scan root, that carries an
\* excluded name
BelowExcluded(f) == \E d \in DirChain(f[1]) \ {0} : dirName[d] \in EXCLUDED_DIRS

\* the file lies in or under a directory that carries an excluded name, the
\* scan root counted
InsideExcluded(f) == \E d \in DirChain(f[1]) : dirName[d] \in EXCLUDED_DIRS

\* the name is no exclusion entry but contains one
ContainsEntry(name) ==
    /\ name \notin EXCLUDED_DIRS
    /\ \E e \in EXCLUDED_DIRS : IsSubstring(Pieces(e), Pieces(name))

Foreign(f) == meta[f].kind = "file" /\ meta[f].uid # host_uid

StatPaths == {e.path : e \in statted}

DiagnoseReturned == op = "diagnose" /\ pc = "done" /\ ret = "list"

NoDuplicates(s) == Cardinality(Range(s)) = Len(s)

\* fix_permissions has the diagnosis in hand and has returned
FixReturned == op = "fix" /\ pc = "done" /\ ret # "raised"

----------------------------------------------------------------------------
(* C1: when diagnose() returns, its result holds, once each, exactly the    *)
(* files it scans (those not under an excluded directory of the tree) whose *)
(* owner is not the host uid, whatever the foreign uid and whatever the     *)
(* order in which directories and files are listed.                         *)
C1_DiagnoseExactlyForeign ==
    DiagnoseReturned =>
        /\ Range(mismatched_files) =
              {FilePath(f) : f \in {g \in Files : ~BelowExcluded(g) /\ Foreign(g)}}
        /\ NoDuplicates(mismatched_files)

\* the scenario of the claim: a reported file with a foreign uid other than 0,
\* a host-owned file left out, a foreign file under venv/ left out
C1_Witness ==
    /\ DiagnoseReturned
    /\ \E f, g, h \in Files :
          /\ Foreign(f) /\ meta[f].uid # 0 /\ FilePath(f) \in Range(mismatched_files)
          /\ meta[g] = Owned(host_uid) /\ ~BelowExcluded(g)
          /\ Foreign(h) /\ BelowExcluded(h)
          /\ FilePath(g) \notin Range(mismatched_files)
          /\ FilePath(h) \notin Range(mismatched_files)

(* C2: fix called with a non-empty path list on a platform other than       *)
(* Windows issues exactly one subprocess.run call, sudo chown uid:gid       *)
(* followed by that list, with check, captured output and the 60 s timeout, *)
(* and returns True when the command succeeds.                              *)
C2_FixChownsTheGivenList ==
    (op = "fix" /\ pc = "done" /\ ret # "raised" /\ execute.isList
        /\ execute.paths # <<>> /\ platform # "Windows") =>
        /\ runCalls = << [args |-> <<<<"sudo">>, <<"chown">>, OwnerSpec>> \o execute.paths,
                          check |-> TRUE, capture_output |-> TRUE, timeout |-> 60] >>
        /\ runOutcome = "ok" => ret = "True"

(* C3: check_compose_config prints nothing when docker-compose.yml has the  *)
(* token "user:", prints exactly one text naming both "user:" and           *)
(* "docker-compose.yml" when the file lacks the token, and prints nothing   *)
(* and returns normally when the file is missing.                           *)
C3_ComposeAdvisory ==
    (op = "check" /\ pc = "done") =>
        /\ ret = "None"
        /\ compose.kind = "missing" => console = <<>>
        /\ (compose.kind = "text" /\ IsSubstring(UserToken, compose.text)) =>
              console = <<>>
        /\ (compose.kind = "text" /\ ~IsSubstring(UserToken, compose.text)) =>
              /\ Len(console) = 1
              /\ IsSubstring(UserToken, console[1])
              /\ IsSubstring(ComposeFileName, console[1])

(* C4: neither diagnose() nor check_compose_config() ever ends by raising,  *)
(* whatever listing, os.stat and reading the file do.                       *)
C4_NothingEscapes ==
    (op \in {"diagnose", "check"} /\ pc = "done") => ret # "raised"

(* C5 as claimed: no file in or under a directory with an excluded name,    *)
(* the scan root counted, is ever stat'ed or reported.                      *)
C5_NoExcludedNameEverScanned ==
    \A f \in Files :
        InsideExcluded(f) =>
            /\ FilePath(f) \notin StatPaths
            /\ FilePath(f) \notin Range(mismatched_files)

(* C5 as amended: no file in or under a directory below the scan root that  *)
(* has an excluded name is ever stat'ed or reported, at any depth and       *)
(* whoever owns it.                                                         *)
C5_ExcludedSubtreesNeverScanned ==
    \A f \in Files :
        BelowExcluded(f) =>
            /\ FilePath(f) \notin StatPaths
            /\ FilePath(f) \notin Range(mismatched_files)

\* a scan that ran to its end past a foreign file two levels down, under an
\* excluded directory
C5_Witness ==
    /\ DiagnoseReturned
    /\ \E f \in Files :
          /\ Foreign(f) /\ BelowExcluded(f)
          /\ parent[f[1]] # 0
          /\ statted # {}

(* C6: a directory whose name only contains an exclusion entry is walked:   *)
(* when no directory between the scan root and a foreign-owned file has an  *)
(* excluded name, the file is stat'ed and reported, also when one of those  *)
(* names contains an entry (my-venv-configs).                               *)
C6_ExactNameMatch ==
    DiagnoseReturned =>
        \A f \in Files :
            ( /\ Foreign(f)
              /\ \E d \in DirChain(f[1]) \ {0} : ContainsEntry(dirName[d])
              /\ ~BelowExcluded(f) ) =>
                /\ FilePath(f) \in StatPaths
                /\ FilePath(f) \in Range(mismatched_files)

C6_Witness ==
    /\ DiagnoseReturned
    /\ \E f \in Files :
          /\ dirName[f[1]] = "my-venv-configs" /\ f[1] # 0
          /\ Foreign(f)
          /\ FilePath(f) \in Range(mismatched_files)

C8_WindowsAlwaysFails ==
    (FixReturned /\ Truthy(execute) /\ platform = "Windows") =>
        ret = "False" /\ runCalls = <<>>

(* C8 as amended: with execute true on Windows and a non-empty diagnosis,   *)
(* fix_permissions returns False and issues no subprocess.run call.         *)
C8_WindowsFailsWhenMismatched ==
    (op = "fix" /\ pc \in {"run", "done"} /\ ret # "raised" /\ Truthy(execute)
        /\ platform = "Windows" /\ mismatched_files # <<>>) =>
        pc = "done" /\ ret = "False" /\ runCalls = <<>>

C8_Witness ==
    /\ FixReturned /\ Truthy(execute) /\ platform = "Windows"
    /\ mismatched_files # <<>> /\ ret = "False"

(* C9: when the chown command runs past its timeout, exits non-zero or      *)
(* cannot be started for lack of permission, fix_permissions returns False, *)
(* having issued that one call and no other.                                *)
C9_CommandFailureIsFailure ==
    (pc = "done" /\ runOutcome \in {"TimeoutExpired", "CalledProcessError", "PermissionError"}) =>
        ret = "False" /\ Len(runCalls) = 1

C9_Witness ==
    /\ pc = "done" /\ runOutcome = "TimeoutExpired" /\ ret = "False"
    /\ Len(runCalls) = 1

\* the path was stat'ed in this call and os.stat gave a foreign owner
StattedForeign(p) ==
    \E e \in statted : e.path = p /\ e.st.kind = "file" /\ e.st.uid # host_uid

\* the paths of a chown command line
PathArgs(call) == SubSeq(call.args, 4, Len(call.args))

====
